---------------------------- MODULE Spec2Model ----------------------------
(***************************************************************************)
(* Model of the request-pacing and identity-rotation core of ebayScraper:  *)
(*   src/utils/rate_limiter.py  (RateLimiter, AdaptiveRateLimiter)         *)
(*   src/utils/user_agents.py   (UserAgentRotator, SmartUserAgentRotator)  *)
(*   src/scraper/*_scraper.py   (the _get_page routines that call them)    *)
(*   src/app.py                 (the web routes and the background thread) *)
(*                                                                         *)
(* Durations and timestamps are Python floats in seconds; here they are    *)
(* integers in milliseconds (0.1 s = 100, 0.5 s = 500, 30 s = 30000,       *)
(* 60 s = 60000).  The base delays and inputs are chosen so that every     *)
(* product the code forms (x0.8, x2, x3) is a whole number of              *)
(* milliseconds, so no rounding is introduced by the change of unit.       *)
(***************************************************************************)
EXTENDS Integers, Sequences, FiniteSets, TLC

VARIABLES
    limiter,      \* the RateLimiter instance (its attributes)
    last_call,    \* the last method called on the limiter, its argument and,
                  \* for wait(), its locals delay_needed and actual_delay
    succ_streak,  \* on_success() calls made in a row: since the last
                  \* on_failure, on_blocked or reset (wait and set_delay
                  \* report no outcome and do not end a run)
    gen_streak,   \* on_failure("general") calls made in a row, the first of
                  \* them from a state whose consecutive_failures was 0
    rotator,      \* the SmartUserAgentRotator instance (its attributes)
    rot_call,     \* the last method called on the rotator and what it returned
    rotation,     \* what get_next_agent returned, call by call, from the
                  \* first call that found the cursor at 0 on the present pool
    fetch,        \* the page-fetch routine of a scraper: which scraper, where
                  \* the call of _get_page stands, and what the request
                  \* attempt under way has done so far
    scraping_status, \* the global dict of app.py
    status_lock,  \* the global Lock of app.py: None, or the thread holding it
    threads,      \* the scrape_background threads: where each stands and the
                  \* results its scrape returned
    handler,      \* where the api_status request under way stands
    access        \* the last use a route or a thread made of scraping_status:
                  \* by which routine, read or write, whether its thread held
                  \* status_lock, and what the route answered

vars == <<limiter, last_call, succ_streak, gen_streak, rotator, rot_call, rotation,
         fetch, scraping_status, status_lock, threads, handler, access>>

limiter_vars == <<limiter, last_call, succ_streak, gen_streak>>
rotator_vars == <<rotator, rot_call, rotation>>
scraper_vars == <<fetch>>
app_vars     == <<scraping_status, status_lock, threads, handler, access>>

-----------------------------------------------------------------------------
(* Helpers *)

max(a, b) == IF a >= b THEN a ELSE b
min(a, b) == IF a <= b THEN a ELSE b

\* Optional[float]: None is the empty sequence, a value t is <<t>>.
None == << >>
Some(t) == << t >>

-----------------------------------------------------------------------------
(* Bounds of the model *)

\* on_success is not called once consecutive_successes has reached this.
MaxSuccesses == 6
\* on_failure / on_blocked are not called beyond this consecutive_failures.
MaxFailures == 12
\* largest timestamp (ms) at which wait() is entered.
MaxTime == 200

\* base_delay values the limiter is constructed with (ms): below the 0.1 s
\* floor, the default 2.0 s, one whose double exceeds 30 s, one above 60 s.
BaseDelays == {50, 2000, 20000, 70000}

\* delays given to set_delay (ms): negative, zero, the 0.5 s that on_success
\* relaxes to, ordinary, above the 60 s of on_blocked.
DelayInputs == {-1000, 0, 500, 3000, 70000}

\* time elapsed (ms) between the previous request timestamp and the clock
\* reading taken on entry to wait().
ElapsedChoices == {0, 50, 200}

\* the first clock reading when no previous timestamp exists.
FirstTimes == {0}

\* how much longer than requested time.sleep() may last (ms).
Oversleep == {0, 50}

ErrorTypes == {"general", "rate_limit"}

-----------------------------------------------------------------------------
(* RateLimiter *)

\* RateLimiter.__init__(base_delay, randomize)
RateLimiterInit(base_delay, randomize) ==
    [ base_delay            |-> base_delay,
      randomize             |-> randomize,
      last_request_time     |-> None,
      consecutive_successes |-> 0,
      consecutive_failures  |-> 0,
      current_delay         |-> base_delay ]

\* random.uniform(-variation, variation): the whole-millisecond samples taken
\* here are both ends of the interval and its midpoint.
Uniform(variation) ==
    { -variation, 0, variation }

\* wait() without the 0.1 s floor on the jittered delay.
WaitLocals_nofloor(self, current_time, u) ==
    IF self.last_request_time # None
    THEN LET elapsed      == current_time - self.last_request_time[1]
             delay_needed == self.current_delay - elapsed
         IN  IF delay_needed > 0
             THEN [ had_previous |-> TRUE,
                    delay_needed |-> Some(delay_needed),
                    slept        |-> Some(IF self.randomize
                                          THEN delay_needed + u
                                          ELSE delay_needed) ]
             ELSE [ had_previous |-> TRUE,
                    delay_needed |-> Some(delay_needed),
                    slept        |-> None ]
    ELSE [ had_previous |-> FALSE, delay_needed |-> None, slept |-> None ]

\* The locals of one run of wait(): current_time is the first clock reading,
\* u the sample random.uniform returned.  slept is None when time.sleep is
\* not called, else Some(actual_delay).
WaitLocals(self, current_time, u) ==
    IF self.last_request_time # None
    THEN LET elapsed      == current_time - self.last_request_time[1]
             delay_needed == self.current_delay - elapsed
         IN  IF delay_needed > 0
             THEN LET actual_delay ==
                          IF self.randomize
                          THEN max(100, delay_needed + u)
                          ELSE delay_needed
                  IN  [ had_previous |-> TRUE,
                        delay_needed |-> Some(delay_needed),
                        slept        |-> Some(actual_delay) ]
             ELSE [ had_previous |-> TRUE,
                    delay_needed |-> Some(delay_needed),
                    slept        |-> None ]
    ELSE [ had_previous |-> FALSE, delay_needed |-> None, slept |-> None ]

\* a variation of half of delay_needed instead of a quarter.
Variation_half(self, current_time) ==
    LET elapsed      == current_time - self.last_request_time[1]
        delay_needed == self.current_delay - elapsed
    IN  delay_needed \div 2

\* the variation wait() hands to random.uniform: delay_needed * 0.25
Variation(self, current_time) ==
    LET elapsed      == current_time - self.last_request_time[1]
        delay_needed == self.current_delay - elapsed
    IN  delay_needed \div 4

\* on_success that does not clear consecutive_failures.
on_success_keeps_failures(self) ==
    LET s1 == [ self EXCEPT !.consecutive_successes = @ + 1 ]
    IN  IF s1.consecutive_successes >= 5
        THEN [ s1 EXCEPT !.current_delay = max((self.base_delay * 4) \div 5, 500) ]
        ELSE s1

\* on_success that recovers to base_delay itself instead of 0.8 * base_delay.
on_success_to_base(self) ==
    LET s1 == [ self EXCEPT !.consecutive_successes = @ + 1,
                            !.consecutive_failures  = 0 ]
    IN  IF s1.consecutive_successes >= 5
        THEN [ s1 EXCEPT !.current_delay = max(self.base_delay, 500) ]
        ELSE s1

\* RateLimiter.on_success
on_success(self) ==
    LET s1 == [ self EXCEPT !.consecutive_successes = @ + 1,
                            !.consecutive_failures  = 0 ]
    IN  IF s1.consecutive_successes >= 5
        THEN [ s1 EXCEPT !.current_delay = max((self.base_delay * 4) \div 5, 500) ]
        ELSE s1

\* on_failure escalating from the second failure of a streak on.
on_failure_early(self, error_type) ==
    LET s1 == [ self EXCEPT !.consecutive_failures  = @ + 1,
                            !.consecutive_successes = 0 ]
    IN  IF error_type = "rate_limit" \/ s1.consecutive_failures >= 2
        THEN [ s1 EXCEPT !.current_delay = min(self.base_delay * 2, 30000) ]
        ELSE s1

\* on_failure testing the 5-failure tier before the rate_limit / 3-failure tier.
on_failure_swapped(self, error_type) ==
    LET s1 == [ self EXCEPT !.consecutive_failures  = @ + 1,
                            !.consecutive_successes = 0 ]
    IN  IF s1.consecutive_failures >= 5
        THEN [ s1 EXCEPT !.current_delay = min(self.base_delay * 3, 60000) ]
        ELSE IF error_type = "rate_limit" \/ s1.consecutive_failures >= 3
        THEN [ s1 EXCEPT !.current_delay = min(self.base_delay * 2, 30000) ]
        ELSE s1

\* RateLimiter.on_failure
on_failure(self, error_type) ==
    LET s1 == [ self EXCEPT !.consecutive_failures  = @ + 1,
                            !.consecutive_successes = 0 ]
    IN  IF error_type = "rate_limit" \/ s1.consecutive_failures >= 3
        THEN [ s1 EXCEPT !.current_delay = min(self.base_delay * 2, 30000) ]
        ELSE IF s1.consecutive_failures >= 5
        THEN [ s1 EXCEPT !.current_delay = min(self.base_delay * 3, 60000) ]
        ELSE s1

\* on_blocked assigning 10 to consecutive_failures instead of adding 10.
on_blocked_assign(self) ==
    [ self EXCEPT !.current_delay        = 60000,
                  !.consecutive_failures = 10 ]

\* RateLimiter.on_blocked
on_blocked(self) ==
    [ self EXCEPT !.current_delay        = 60000,
                  !.consecutive_failures = @ + 10 ]

\* reset that leaves the last-request timestamp in place.
reset_keeps_time(self) ==
    [ self EXCEPT !.current_delay         = self.base_delay,
                  !.consecutive_successes = 0,
                  !.consecutive_failures  = 0 ]

\* RateLimiter.reset
reset(self) ==
    [ self EXCEPT !.current_delay         = self.base_delay,
                  !.consecutive_successes = 0,
                  !.consecutive_failures  = 0,
                  !.last_request_time     = None ]

\* set_delay that changes current_delay only and leaves base_delay alone.
set_delay_keeps_base(self, delay) ==
    [ self EXCEPT !.current_delay = max(100, delay) ]

\* RateLimiter.set_delay
set_delay(self, delay) ==
    LET s1 == [ self EXCEPT !.current_delay = max(100, delay) ]
    IN  [ s1 EXCEPT !.base_delay = s1.current_delay ]

-----------------------------------------------------------------------------
(* The record of the last call on the limiter *)

Call(op, arg) ==
    [ op |-> op, arg |-> arg,
      had_previous |-> FALSE, delay_needed |-> None, slept |-> None ]

NoCall == Call("init", None)

-----------------------------------------------------------------------------
(* Actions on the limiter *)

WaitCall(max_time) ==
    /\ \E current_time \in
            IF limiter.last_request_time = None
            THEN FirstTimes
            ELSE { limiter.last_request_time[1] + e : e \in ElapsedChoices } :
         /\ current_time <= max_time
         /\ \E u \in IF limiter.last_request_time = None
                     THEN {0}
                     ELSE Uniform(Variation(limiter, current_time)) :
            \E over \in Oversleep :
              LET loc == WaitLocals(limiter, current_time, u)
                  end_time == IF loc.slept = None
                              THEN current_time
                              ELSE current_time + loc.slept[1] + over
              IN  /\ loc.slept = None => over = 0
                  /\ limiter' = [ limiter EXCEPT !.last_request_time = Some(end_time) ]
                  /\ last_call' = [ op |-> "wait", arg |-> None,
                                    had_previous |-> loc.had_previous,
                                    delay_needed |-> loc.delay_needed,
                                    slept        |-> loc.slept ]
    /\ UNCHANGED <<succ_streak, gen_streak>>

Wait ==
    /\ WaitCall(MaxTime)
    /\ UNCHANGED <<rotator_vars, scraper_vars, app_vars>>

OnSuccessCall ==
    /\ limiter' = on_success(limiter)
    /\ last_call' = Call("on_success", None)
    /\ succ_streak' = succ_streak + 1
    /\ gen_streak' = 0

OnSuccess ==
    /\ limiter.consecutive_successes < MaxSuccesses
    /\ OnSuccessCall
    /\ UNCHANGED <<rotator_vars, scraper_vars, app_vars>>

OnFailureCall(error_type) ==
    /\ limiter' = on_failure(limiter, error_type)
    /\ last_call' = Call("on_failure", Some(error_type))
    /\ gen_streak' = IF error_type # "general" THEN 0
                      ELSE IF gen_streak > 0 THEN gen_streak + 1
                      ELSE IF limiter.consecutive_failures = 0 THEN 1
                      ELSE 0
    /\ succ_streak' = 0

OnFailure ==
    /\ limiter.consecutive_failures < MaxFailures
    /\ \E error_type \in ErrorTypes : OnFailureCall(error_type)
    /\ UNCHANGED <<rotator_vars, scraper_vars, app_vars>>

OnBlocked ==
    /\ limiter.consecutive_failures + 10 <= MaxFailures
    /\ limiter' = on_blocked(limiter)
    /\ last_call' = Call("on_blocked", None)
    /\ succ_streak' = 0
    /\ gen_streak' = 0
    /\ UNCHANGED <<rotator_vars, scraper_vars, app_vars>>

Reset ==
    /\ limiter' = reset(limiter)
    /\ last_call' = Call("reset", None)
    /\ succ_streak' = 0
    /\ gen_streak' = 0
    /\ UNCHANGED <<rotator_vars, scraper_vars, app_vars>>

SetDelay ==
    /\ \E delay \in DelayInputs :
         /\ limiter' = set_delay(limiter, delay)
         /\ last_call' = Call("set_delay", Some(delay))
    /\ UNCHANGED <<succ_streak, gen_streak, rotator_vars, scraper_vars, app_vars>>

-----------------------------------------------------------------------------
(* UserAgentRotator and SmartUserAgentRotator *)

\* A user agent string is modelled by its first 50 characters (head) and the
\* rest (tail); two strings are equal when both parts are.
UA(head, tail) == [ head |-> head, tail |-> tail ]

\* UserAgentRotator._get_user_agent_list
DefaultAgents == <<
    UA("Mozilla/5.0 (Windows NT 10.0; Win64; x64) AppleWeb", "Kit/537.36 (KHTML, like Gecko) Chrome/120.0.0.0 Safari/537.36"),
    UA("Mozilla/5.0 (Windows NT 10.0; Win64; x64) AppleWeb", "Kit/537.36 (KHTML, like Gecko) Chrome/119.0.0.0 Safari/537.36"),
    UA("Mozilla/5.0 (Windows NT 10.0; Win64; x64) AppleWeb", "Kit/537.36 (KHTML, like Gecko) Chrome/118.0.0.0 Safari/537.36"),
    UA("Mozilla/5.0 (Macintosh; Intel Mac OS X 10_15_7) Ap", "pleWebKit/537.36 (KHTML, like Gecko) Chrome/120.0.0.0 Safari/537.36"),
    UA("Mozilla/5.0 (Macintosh; Intel Mac OS X 10_15_7) Ap", "pleWebKit/537.36 (KHTML, like Gecko) Chrome/119.0.0.0 Safari/537.36"),
    UA("Mozilla/5.0 (Windows NT 10.0; Win64; x64; rv:120.0", ") Gecko/20100101 Firefox/120.0"),
    UA("Mozilla/5.0 (Windows NT 10.0; Win64; x64; rv:119.0", ") Gecko/20100101 Firefox/119.0"),
    UA("Mozilla/5.0 (Macintosh; Intel Mac OS X 10.15; rv:1", "20.0) Gecko/20100101 Firefox/120.0"),
    UA("Mozilla/5.0 (Macintosh; Intel Mac OS X 10.15; rv:1", "19.0) Gecko/20100101 Firefox/119.0"),
    UA("Mozilla/5.0 (Macintosh; Intel Mac OS X 10_15_7) Ap", "pleWebKit/605.1.15 (KHTML, like Gecko) Version/17.1 Safari/605.1.15"),
    UA("Mozilla/5.0 (Macintosh; Intel Mac OS X 10_15_7) Ap", "pleWebKit/605.1.15 (KHTML, like Gecko) Version/17.0 Safari/605.1.15"),
    UA("Mozilla/5.0 (Windows NT 10.0; Win64; x64) AppleWeb", "Kit/537.36 (KHTML, like Gecko) Chrome/120.0.0.0 Safari/537.36 Edg/120.0.0.0"),
    UA("Mozilla/5.0 (Windows NT 10.0; Win64; x64) AppleWeb", "Kit/537.36 (KHTML, like Gecko) Chrome/119.0.0.0 Safari/537.36 Edg/119.0.0.0"),
    UA("Mozilla/5.0 (X11; Linux x86_64) AppleWebKit/537.36", " (KHTML, like Gecko) Chrome/120.0.0.0 Safari/537.36"),
    UA("Mozilla/5.0 (X11; Linux x86_64) AppleWebKit/537.36", " (KHTML, like Gecko) Chrome/119.0.0.0 Safari/537.36"),
    UA("Mozilla/5.0 (X11; Linux x86_64; rv:120.0) Gecko/20", "100101 Firefox/120.0"),
    UA("Mozilla/5.0 (X11; Ubuntu; Linux x86_64; rv:120.0) ", "Gecko/20100101 Firefox/120.0") >>

\* Two strings a caller may add or report that are not in the default list:
\* a newer desktop Chrome, and the first of get_mobile_agent's strings.
CustomChrome ==
    UA("Mozilla/5.0 (Windows NT 10.0; Win64; x64) AppleWeb", "Kit/537.36 (KHTML, like Gecko) Chrome/121.0.0.0 Safari/537.36")
CustomMobile ==
    UA("Mozilla/5.0 (iPhone; CPU iPhone OS 17_1 like Mac O", "S X) AppleWebKit/605.1.15 (KHTML, like Gecko) Version/17.1 Mobile/15E148 Safari/604.1")

\* the strings given to add_custom_agent: one already in the pool, two new
AddInputs == { DefaultAgents[1], CustomChrome, CustomMobile }

\* the strings given to record_result: one of the pool, one that is in the
\* pool only once it has been added
RecordInputs == { DefaultAgents[1], CustomChrome }

\* record_result is not called for an agent that has this many results.
MaxAttempts == 5
\* get_next_agent is not called once this many calls have been followed.
MaxServed == 38

InSeq(x, seq) == \E i \in 1..Len(seq) : seq[i] = x

\* UserAgentRotator.__init__ and SmartUserAgentRotator.__init__; the two
\* dicts are sequences of entries in insertion order, as a dict iterates.
SmartUserAgentRotatorInit ==
    [ user_agents         |-> DefaultAgents,
      current_index       |-> 0,
      agent_success_rates |-> << >>,
      agent_usage_count   |-> << >> ]

\* UserAgentRotator.get_random_agent: what random.choice may return
get_random_agent(self) ==
    { self.user_agents[i] : i \in 1..Len(self.user_agents) }

\* Which of the words 'Mobile', 'iPhone', 'Android' occur in a string of the
\* model: both of the first two in CustomMobile, none in the seventeen
\* default strings nor in CustomChrome.
MobileMarkers(ua) == IF ua = CustomMobile THEN {"iPhone", "Mobile"} ELSE {}

\* the filter of get_desktop_agent's list comprehension
IsDesktop(ua) ==
    /\ "Mobile" \notin MobileMarkers(ua)
    /\ "iPhone" \notin MobileMarkers(ua)
    /\ "Android" \notin MobileMarkers(ua)

\* UserAgentRotator.get_desktop_agent: what the call may end in, a returned
\* string or the IndexError random.choice raises on an empty list; the
\* method catches nothing.
get_desktop_agent(self) ==
    LET desktop_agents == SelectSeq(self.user_agents, IsDesktop)
    IN  IF desktop_agents = << >>
        THEN { [ agent |-> None, raised |-> Some("IndexError") ] }
        ELSE { [ agent |-> Some(desktop_agents[i]), raised |-> None ] :
                  i \in 1..Len(desktop_agents) }

\* get_next_agent taking the wrap-around one entry too early.
get_next_agent_wrap_early(self) ==
    [ agent |-> self.user_agents[self.current_index + 1],
      self  |-> [ self EXCEPT !.current_index =
                      (self.current_index + 1) % (Len(self.user_agents) - 1) ] ]

\* UserAgentRotator.get_next_agent: the string returned and the rotator after
\* the call (user_agents is indexed from 0 in the source, from 1 here).
get_next_agent(self) ==
    [ agent |-> self.user_agents[self.current_index + 1],
      self  |-> [ self EXCEPT !.current_index =
                      (self.current_index + 1) % Len(self.user_agents) ] ]

\* add_custom_agent without the membership test.
add_custom_agent_always(self, user_agent) ==
    [ self EXCEPT !.user_agents = Append(@, user_agent) ]

\* UserAgentRotator.add_custom_agent
add_custom_agent(self, user_agent) ==
    IF ~InSeq(user_agent, self.user_agents)
    THEN [ self EXCEPT !.user_agents = Append(@, user_agent) ]
    ELSE self

\* position of a key in a dict, 0 when the key is absent
DictIndex(dict, key) ==
    IF \E i \in 1..Len(dict) : dict[i].agent = key
    THEN CHOOSE i \in 1..Len(dict) : dict[i].agent = key
    ELSE 0

\* SmartUserAgentRotator.record_result
record_result(self, user_agent, success) ==
    LET rates0 == IF DictIndex(self.agent_success_rates, user_agent) = 0
                  THEN Append(self.agent_success_rates,
                              [ agent |-> user_agent, success |-> 0, total |-> 0 ])
                  ELSE self.agent_success_rates
        i      == DictIndex(rates0, user_agent)
        rates1 == [ rates0 EXCEPT ![i].total = @ + 1 ]
        rates2 == IF success THEN [ rates1 EXCEPT ![i].success = @ + 1 ] ELSE rates1
        j      == DictIndex(self.agent_usage_count, user_agent)
        usage  == IF j = 0
                  THEN Append(self.agent_usage_count,
                              [ agent |-> user_agent, count |-> 0 + 1 ])
                  ELSE [ self.agent_usage_count EXCEPT ![j].count = @ + 1 ]
    IN  [ self EXCEPT !.agent_success_rates = rates2,
                      !.agent_usage_count   = usage ]

\* the loop of get_best_agent counting an identity from its first attempt on
RECURSIVE BestScan_any_attempt(_, _, _, _, _)
BestScan_any_attempt(rates, i, best_agent, num, den) ==
    IF i > Len(rates)
    THEN best_agent
    ELSE LET stats == rates[i]
         IN  IF stats.total >= 1 /\ stats.success * den > num * stats.total
             THEN BestScan_any_attempt(rates, i + 1, Some(stats.agent),
                                       stats.success, stats.total)
             ELSE BestScan_any_attempt(rates, i + 1, best_agent, num, den)

\* The loop of get_best_agent from entry i on: best_agent is None or
\* Some(agent), best_rate the fraction num / den (rate > best_rate is
\* compared on cross products, both denominators being positive).
RECURSIVE BestScan(_, _, _, _, _)
BestScan(rates, i, best_agent, num, den) ==
    IF i > Len(rates)
    THEN best_agent
    ELSE LET stats == rates[i]
         IN  IF stats.total >= 5 /\ stats.success * den > num * stats.total
             THEN BestScan(rates, i + 1, Some(stats.agent), stats.success, stats.total)
             ELSE BestScan(rates, i + 1, best_agent, num, den)

\* SmartUserAgentRotator.get_best_agent: the strings it may return
get_best_agent(self) ==
    IF self.agent_success_rates = << >>
    THEN get_random_agent(self)
    ELSE LET best_agent == BestScan(self.agent_success_rates, 1, None, 0, 1)
         IN  IF best_agent # None
             THEN { best_agent[1] }
             ELSE get_random_agent(self)

\* The key get_stats files an identity under, agent[:50] + "...": the first
\* 50 characters decide it, the suffix is the same for all.
StatsKey(agent) == agent.head

\* stats[key] = value on a dict kept in insertion order: a key already there
\* keeps its place and takes the new value.
DictAssign(stats, key, value) ==
    IF \E k \in 1..Len(stats) : stats[k].key = key
    THEN [ k \in 1..Len(stats) |->
              IF stats[k].key = key THEN [ key |-> key, value |-> value ]
                                    ELSE stats[k] ]
    ELSE Append(stats, [ key |-> key, value |-> value ])

\* The loop of get_stats from entry i on; success_rate is kept as the
\* fraction <<success, total>>.
RECURSIVE StatsScan(_, _, _)
StatsScan(rates, i, stats) ==
    IF i > Len(rates)
    THEN stats
    ELSE LET data == rates[i]
         IN  IF data.total > 0
             THEN StatsScan(rates, i + 1,
                    DictAssign(stats, StatsKey(data.agent),
                               [ success_rate |-> << data.success, data.total >>,
                                 total_uses   |-> data.total,
                                 successes    |-> data.success ]))
             ELSE StatsScan(rates, i + 1, stats)

\* SmartUserAgentRotator.get_stats
get_stats(self) == StatsScan(self.agent_success_rates, 1, << >>)

-----------------------------------------------------------------------------
(* The record of the last call on the rotator *)

\* a call that returned: raised is None
RotCall(op, arg, result) ==
    [ op |-> op, arg |-> arg, result |-> result, raised |-> None ]

\* a call that ended in an exception of the given class
RotRaise(op, arg, exception) ==
    [ op |-> op, arg |-> arg, result |-> None, raised |-> Some(exception) ]

NoRotCall == RotCall("init", None, None)

NoRotation == << >>

-----------------------------------------------------------------------------
(* Actions on the rotator *)

GetRandomAgentCall ==
    /\ \E agent \in get_random_agent(rotator) :
         rot_call' = RotCall("get_random_agent", None, Some(agent))
    /\ UNCHANGED <<rotator, rotation>>

GetRandomAgent ==
    /\ GetRandomAgentCall
    /\ UNCHANGED <<limiter_vars, scraper_vars, app_vars>>

GetDesktopAgent ==
    /\ \E r \in get_desktop_agent(rotator) :
         rot_call' = IF r.raised = None
                     THEN RotCall("get_desktop_agent", None, r.agent)
                     ELSE RotRaise("get_desktop_agent", None, r.raised[1])
    /\ UNCHANGED <<rotator, rotation, limiter_vars, scraper_vars, app_vars>>

GetNextAgent ==
    /\ Len(rotation) < MaxServed
    /\ LET r == get_next_agent(rotator)
       IN  /\ rotator' = r.self
           /\ rot_call' = RotCall("get_next_agent", None, Some(r.agent))
           /\ rotation' = IF rotation # << >> \/ rotator.current_index = 0
                          THEN Append(rotation, r.agent)
                          ELSE rotation
    /\ UNCHANGED <<limiter_vars, scraper_vars, app_vars>>

AddCustomAgent ==
    /\ \E user_agent \in AddInputs :
         /\ rotator' = add_custom_agent(rotator, user_agent)
         /\ rot_call' = RotCall("add_custom_agent", Some(user_agent), None)
         /\ rotation' = IF rotator'.user_agents = rotator.user_agents
                        THEN rotation
                        ELSE NoRotation
    /\ UNCHANGED <<limiter_vars, scraper_vars, app_vars>>

RecordResult ==
    /\ \E user_agent \in RecordInputs, success \in BOOLEAN :
         /\ LET i == DictIndex(rotator.agent_success_rates, user_agent)
            IN  i # 0 => rotator.agent_success_rates[i].total < MaxAttempts
         /\ rotator' = record_result(rotator, user_agent, success)
         /\ rot_call' = RotCall("record_result", Some(<<user_agent, success>>), None)
    /\ UNCHANGED <<rotation, limiter_vars, scraper_vars, app_vars>>

\* Strings that are in no pool: record_result takes any string, the pool
\* holds 17 strings and add_custom_agent can add two more in the model.
Strangers ==
    << UA("crawler-01/1.0", ""), UA("crawler-02/1.0", ""),
       UA("crawler-03/1.0", ""), UA("crawler-04/1.0", ""),
       UA("crawler-05/1.0", ""), UA("crawler-06/1.0", ""),
       UA("crawler-07/1.0", ""), UA("crawler-08/1.0", ""),
       UA("crawler-09/1.0", ""), UA("crawler-10/1.0", ""),
       UA("crawler-11/1.0", ""), UA("crawler-12/1.0", ""),
       UA("crawler-13/1.0", ""), UA("crawler-14/1.0", ""),
       UA("crawler-15/1.0", ""), UA("crawler-16/1.0", ""),
       UA("crawler-17/1.0", ""), UA("crawler-18/1.0", ""),
       UA("crawler-19/1.0", ""), UA("crawler-20/1.0", "") >>

\* record_result called with strings of no pool: the first of them any
\* number of times with either outcome, each further one once, in the
\* order of Strangers, as a failure.
RecordStranger ==
    /\ \E k \in 1..Len(Strangers), success \in BOOLEAN :
         /\ LET rates == rotator.agent_success_rates
            IN  \/ /\ k = 1
                   /\ rates # << >> => rates[1].total < MaxAttempts
                \/ /\ k > 1
                   /\ k = Len(rates) + 1
                   /\ ~ success
         /\ rotator' = record_result(rotator, Strangers[k], success)
         /\ rot_call' = RotCall("record_result", Some(<<Strangers[k], success>>), None)
    /\ UNCHANGED <<rotation, limiter_vars, scraper_vars, app_vars>>

GetBestAgent ==
    /\ \E agent \in get_best_agent(rotator) :
         rot_call' = RotCall("get_best_agent", None, Some(agent))
    /\ UNCHANGED <<rotator, rotation, limiter_vars, scraper_vars, app_vars>>

GetStats ==
    /\ rot_call' = RotCall("get_stats", None, Some(get_stats(rotator)))
    /\ UNCHANGED <<rotator, rotation, limiter_vars, scraper_vars, app_vars>>

-----------------------------------------------------------------------------
(* AdaptiveRateLimiter *)

\* self.max_response_time_history
max_response_time_history == 10

\* base_delay of the adaptive limiter (ms): 8 s, from which every product
\* the code forms (x0.8, x0.9, x1.5, x2) stays a whole number of milliseconds
\* up to the 30 s cap.
AdaptiveBaseDelays == {8000}

\* response times reported (ms): fast, below 1.0 s, and slow, above 5.0 s
ResponseTimes == {500, 6000}

RECURSIVE Sum(_)
Sum(seq) == IF seq = << >> THEN 0 ELSE Head(seq) + Sum(Tail(seq))

\* seq[-n:]
LastN(seq, n) ==
    IF Len(seq) <= n THEN seq ELSE SubSeq(seq, Len(seq) - n + 1, Len(seq))

\* AdaptiveRateLimiter.__init__(base_delay)
AdaptiveRateLimiterInit(base_delay) ==
    [ base_delay            |-> base_delay,
      randomize             |-> TRUE,
      last_request_time     |-> None,
      consecutive_successes |-> 0,
      consecutive_failures  |-> 0,
      current_delay         |-> base_delay,
      response_times        |-> << >> ]

\* on_request_complete that never drops the oldest response time.
on_request_complete_keeps_all(self, response_time, success) ==
    LET history  == Append(self.response_times, response_time)
        s1       == [ self EXCEPT !.response_times = history ]
    IN  IF success
        THEN LET s2 == on_success(s1)
             IN  IF /\ Len(history) >= 5
                    /\ Sum(history) < 1000 * Len(history)
                    /\ s2.consecutive_successes >= 5
                 THEN [ s2 EXCEPT !.current_delay =
                                      max((s2.current_delay * 9) \div 10, 500) ]
                 ELSE s2
        ELSE LET s2 == on_failure(s1, "general")
             IN  IF /\ Len(history) >= 3
                    /\ Sum(LastN(history, 3)) > 5000 * 3
                 THEN [ s2 EXCEPT !.current_delay =
                                      min((s2.current_delay * 3) \div 2, 30000) ]
                 ELSE s2

\* on_request_complete whose latency-based increase has no 30 s cap.
on_request_complete_uncapped(self, response_time, success) ==
    LET appended == Append(self.response_times, response_time)
        history  == IF Len(appended) > max_response_time_history
                    THEN Tail(appended)
                    ELSE appended
        s1       == [ self EXCEPT !.response_times = history ]
    IN  IF success
        THEN LET s2 == on_success(s1)
             IN  IF /\ Len(history) >= 5
                    /\ Sum(history) < 1000 * Len(history)
                    /\ s2.consecutive_successes >= 5
                 THEN [ s2 EXCEPT !.current_delay =
                                      max((s2.current_delay * 9) \div 10, 500) ]
                 ELSE s2
        ELSE LET s2 == on_failure(s1, "general")
             IN  IF /\ Len(history) >= 3
                    /\ Sum(LastN(history, 3)) > 5000 * 3
                 THEN [ s2 EXCEPT !.current_delay = (s2.current_delay * 3) \div 2 ]
                 ELSE s2

\* AdaptiveRateLimiter.on_request_complete.  The averages are compared on
\* sums: sum / n < 1.0 is sum < 1000 * n, sum / 3 > 5.0 is sum > 5000 * 3.
on_request_complete(self, response_time, success) ==
    LET appended == Append(self.response_times, response_time)
        history  == IF Len(appended) > max_response_time_history
                    THEN Tail(appended)
                    ELSE appended
        s1       == [ self EXCEPT !.response_times = history ]
    IN  IF success
        THEN LET s2 == on_success(s1)
             IN  IF /\ Len(history) >= 5
                    /\ Sum(history) < 1000 * Len(history)
                    /\ s2.consecutive_successes >= 5
                 THEN [ s2 EXCEPT !.current_delay =
                                      max((s2.current_delay * 9) \div 10, 500) ]
                 ELSE s2
        ELSE LET s2 == on_failure(s1, "general")
             IN  IF /\ Len(history) >= 3
                    /\ Sum(LastN(history, 3)) > 5000 * 3
                 THEN [ s2 EXCEPT !.current_delay =
                                      min((s2.current_delay * 3) \div 2, 30000) ]
                 ELSE s2

OnRequestComplete ==
    /\ \E response_time \in ResponseTimes, success \in BOOLEAN :
         /\ success => limiter.consecutive_successes < MaxSuccesses
         /\ ~ success => limiter.consecutive_failures < MaxFailures
         /\ limiter' = on_request_complete(limiter, response_time, success)
         /\ last_call' = Call("on_request_complete",
                              Some(<< response_time, success >>))
         /\ succ_streak' = IF success THEN succ_streak + 1 ELSE 0
         /\ gen_streak' = IF success THEN 0
                          ELSE IF gen_streak > 0 THEN gen_streak + 1
                          ELSE IF limiter.consecutive_failures = 0 THEN 1
                          ELSE 0
    /\ UNCHANGED <<rotator_vars, scraper_vars, app_vars>>

-----------------------------------------------------------------------------

(* The page-fetch routines of the scrapers: _get_page of                   *)
(* improved_scraper.py, ebay_scraper.py and selenium_scraper.py            *)

Scrapers == {"improved", "ebay", "selenium"}

\* _get_page(self, url, retries = 3): the attempts of one call
retries == 3

\* _get_page is not called more often than this in one behaviour.
MaxPages == 1
\* largest timestamp (ms) at which a scraper enters wait().
MaxFetchTime == 12000

\* What one fetch may end in.  improved: status 200 with a valid page, status
\* 200 with a security-check page, status 429, a status raise_for_status
\* raises on, another status, a requests exception.  ebay: a redirect to the
\* sign-in page, a status raise_for_status raises on (429 included), a
\* blocked/CAPTCHA page, an empty product page, a good page, a requests
\* exception.  selenium: the security check passes or does not resolve, or the
\* driver raises.
Outcomes(scraper) ==
    IF scraper = "improved"
    THEN {"valid", "security", "rate_limited", "http_error", "other_status", "exception"}
    ELSE IF scraper = "ebay"
    THEN {"signin_redirect", "http_error", "blocked", "empty", "valid", "exception"}
    ELSE {"valid", "security", "exception"}

\* fetch.trace: what the request attempt under way has done, in order
Did(event) == Append(fetch.trace, event)

NoFetch ==
    [ scraper |-> "improved", pc |-> "idle", attempt |-> 0, pages |-> 0,
      trace |-> << >>, response |-> None, result |-> None ]

\* return value out of _get_page
Return(f, value) == [ f EXCEPT !.pc = "returned", !.result = Some(value) ]

\* the end of a loop iteration that does not return: continue, or falling
\* out of the try statement
Continue(f) == [ f EXCEPT !.pc = "loop", !.attempt = @ + 1 ]

\* A call of _get_page. improved enters its loop; ebay waits first, once for
\* the whole call; selenium returns False without a driver and waits else.
GetPageEnter ==
    /\ fetch.pc \in {"idle", "returned"}
    /\ fetch.pages < MaxPages
    /\ \E driver \in BOOLEAN :
         /\ fetch.scraper # "selenium" => driver
         /\ LET f == [ fetch EXCEPT !.attempt = 0, !.pages = @ + 1,
                                    !.trace = << >>, !.response = None,
                                    !.result = None ]
            IN  fetch' = IF fetch.scraper = "improved"
                         THEN [ f EXCEPT !.pc = "loop" ]
                         ELSE IF driver
                         THEN [ f EXCEPT !.pc = "wait" ]
                         ELSE Return(f, "False")
    /\ UNCHANGED <<limiter_vars, rotator_vars, app_vars>>

\* for attempt in range(retries): the next iteration starts a new request
\* attempt, or the loop is exhausted.  ebay's wait() before the loop is
\* counted to its first attempt.
GetPageLoop ==
    /\ fetch.pc = "loop"
    /\ fetch' = IF fetch.attempt < retries
                THEN [ fetch EXCEPT
                         !.pc = IF fetch.scraper = "improved" THEN "wait" ELSE "agent",
                         !.trace = IF fetch.scraper = "ebay" /\ fetch.attempt = 0
                                   THEN @ ELSE << >>,
                         !.response = None ]
                ELSE [ fetch EXCEPT !.pc = "failed" ]
    /\ UNCHANGED <<limiter_vars, rotator_vars, app_vars>>

\* self.rate_limiter.wait()
GetPageWait ==
    /\ fetch.pc = "wait"
    /\ WaitCall(MaxFetchTime)
    /\ fetch' = [ fetch EXCEPT
                    !.trace = Did("wait"),
                    !.pc = IF fetch.scraper = "improved" THEN "agent"
                           ELSE IF fetch.scraper = "ebay" THEN "loop"
                           ELSE "get" ]
    /\ UNCHANGED <<rotator_vars, app_vars>>

\* the User-Agent header set from self.user_agent_rotator.get_random_agent()
GetPageAgent ==
    /\ fetch.pc = "agent"
    /\ GetRandomAgentCall
    /\ fetch' = [ fetch EXCEPT !.trace = Did("select"), !.pc = "get" ]
    /\ UNCHANGED <<limiter_vars, app_vars>>

\* self.session.get(url) / self.driver.get(url): a response arrives or the
\* call raises
GetPageFetch ==
    /\ fetch.pc = "get"
    /\ \E outcome \in Outcomes(fetch.scraper) :
         fetch' = [ fetch EXCEPT
                      !.trace = Did("fetch"),
                      !.response = Some(outcome),
                      !.pc = IF outcome = "exception" THEN "except" ELSE "classify" ]
    /\ UNCHANGED <<limiter_vars, rotator_vars, app_vars>>

\* The tests on the response and what each branch reports to the limiter.
GetPageClassify ==
    /\ fetch.pc = "classify"
    /\ LET response == fetch.response[1]
           f == [ fetch EXCEPT !.trace = Did("classify") ]
           reported == [ f EXCEPT !.trace = Append(@, "report") ]
       IN  IF fetch.scraper = "improved"
           THEN IF response = "valid"
                THEN /\ OnSuccessCall
                     /\ fetch' = Return(reported, "soup")
                ELSE IF response = "rate_limited"
                THEN /\ OnFailureCall("rate_limit")
                     /\ fetch' = Continue(reported)
                ELSE /\ UNCHANGED limiter_vars
                     /\ fetch' = IF response = "http_error"
                                 THEN [ f EXCEPT !.pc = "except" ]
                                 ELSE Continue(f)
           ELSE IF fetch.scraper = "ebay"
           THEN /\ UNCHANGED limiter_vars
                /\ fetch' = IF response = "http_error"
                            THEN [ f EXCEPT !.pc = "except" ]
                            ELSE IF response = "blocked"
                            THEN Continue(f)
                            ELSE IF response = "valid"
                            THEN Return(f, "soup")
                            ELSE Return(f, "None")
           ELSE IF response = "valid"
                THEN /\ OnSuccessCall
                     /\ fetch' = Return(reported, "True")
                ELSE /\ UNCHANGED limiter_vars
                     /\ fetch' = Return(f, "False")
    /\ UNCHANGED <<rotator_vars, app_vars>>

\* The except clause: it is where a raised request counts as failed.  The
\* requests scrapers sleep and go on with the loop; selenium reports
\* on_failure() and returns False.
GetPageExcept ==
    /\ fetch.pc = "except"
    /\ LET f == IF fetch.trace[Len(fetch.trace)] = "classify"
                THEN fetch
                ELSE [ fetch EXCEPT !.trace = Did("classify") ]
       IN  IF fetch.scraper = "selenium"
           THEN /\ OnFailureCall("general")
                /\ fetch' = Return([ f EXCEPT !.trace = Append(@, "report") ], "False")
           ELSE /\ UNCHANGED limiter_vars
                /\ fetch' = Continue(f)
    /\ UNCHANGED <<rotator_vars, app_vars>>

\* After the loop: improved reports on_failure() once for the whole call,
\* counted here to the last attempt; both return None.
GetPageFailed ==
    /\ fetch.pc = "failed"
    /\ IF fetch.scraper = "improved"
       THEN /\ OnFailureCall("general")
            /\ fetch' = Return([ fetch EXCEPT !.trace = Did("report") ], "None")
       ELSE /\ UNCHANGED limiter_vars
            /\ fetch' = Return(fetch, "None")
    /\ UNCHANGED <<rotator_vars, app_vars>>

-----------------------------------------------------------------------------

(* The web interface: src/app.py.  Flask serves each request on a thread   *)
(* of its own (app.run's default), so the routes and the background        *)
(* threads interleave; one dict.update or one item assignment is one step. *)

\* POST /api/scrape is not requested again once this many scrapes were started.
MaxRequests == 2

\* the background threads, numbered in the order api_scrape started them
Requests == 1..MaxRequests

\* data.get('search_query') of a POST /api/scrape: missing or given
Queries == { "", "laptop" }

\* The thread a route runs on.  Only api_status takes the lock; the model
\* has one api_status request under way at a time.
HandlerThread(route) ==
    IF route = "api_status" THEN 0
    ELSE IF route = "api_scrape" THEN -1
    ELSE IF route = "api_stop" THEN -2
    ELSE -3

\* what scrape_search_results returned for the r-th request: its items
Items(r) == << r >>

\* The module-level dict.  Keys that are set later ('form_data',
\* 'last_updated', 'error') are None until then; form_data is the number of
\* the request it came with; 'errors' and 'start_time' are never read.
scraping_status_init ==
    [ running         |-> FALSE,
      current_item    |-> "",
      completed_items |-> 0,
      total_items     |-> 0,
      results         |-> << >>,
      form_data       |-> None,
      last_updated    |-> None,
      error           |-> None ]

\* a use of scraping_status: locked tells whether the thread making it
\* holds status_lock at that moment
Access(by, kind, thread, response) ==
    [ by |-> by, kind |-> kind, locked |-> (status_lock = Some(thread)),
      response |-> response ]

NoAccess == [ by |-> "init", kind |-> "none", locked |-> FALSE, response |-> None ]

AppInit ==
    /\ scraping_status = scraping_status_init
    /\ status_lock = None
    /\ threads = [ r \in Requests |-> [ pc |-> "unstarted", results |-> << >> ] ]
    /\ handler = "idle"
    /\ access = NoAccess

\* the threads api_scrape has started
Started == { r \in Requests : threads[r].pc # "unstarted" }

\* the started threads whose scrape_background has not returned
Active == { r \in Started : threads[r].pc # "finished" }

\* api_scrape: a request without search_query is answered 400; any other
\* updates scraping_status and starts a scrape_background thread.
ApiScrape ==
    /\ \E search_query \in Queries :
         IF search_query = ""
         THEN /\ access' = Access("api_scrape", "none", HandlerThread("api_scrape"), Some(400))
              /\ UNCHANGED <<scraping_status, threads>>
         ELSE /\ Cardinality(Started) < MaxRequests
              /\ LET r == Cardinality(Started) + 1
                 IN  /\ scraping_status' =
                           [ scraping_status EXCEPT
                               !.form_data = Some(r),
                               !.running = TRUE,
                               !.current_item = "Initializing",
                               !.completed_items = 0,
                               !.total_items = 0,
                               !.results = << >> ]
                     /\ threads' = [ threads EXCEPT ![r].pc = "started" ]
              /\ access' = Access("api_scrape", "write", HandlerThread("api_scrape"), Some(200))
    /\ UNCHANGED <<status_lock, handler, limiter_vars, rotator_vars, scraper_vars>>

\* api_status: with status_lock
ApiStatusAcquire ==
    /\ handler = "idle"
    /\ status_lock = None
    /\ status_lock' = Some(HandlerThread("api_status"))
    /\ handler' = "locked"
    /\ UNCHANGED <<scraping_status, threads, access, limiter_vars, rotator_vars, scraper_vars>>

\* api_status, under the lock: a status without last_updated, or one older
\* than 30 s, is answered as expired, any other with the dict itself; the
\* with block ends with the return.
ApiStatusRead ==
    /\ handler = "locked"
    /\ \E expired \in BOOLEAN :
         /\ scraping_status.last_updated = None => expired
         /\ access' = Access("api_status", "read", HandlerThread("api_status"),
                             IF expired THEN Some("expired") ELSE Some(scraping_status))
    /\ status_lock' = None
    /\ handler' = "idle"
    /\ UNCHANGED <<scraping_status, threads, limiter_vars, rotator_vars, scraper_vars>>

\* api_stop: scraping_status["running"] = False
ApiStop ==
    /\ scraping_status' = [ scraping_status EXCEPT !.running = FALSE ]
    /\ access' = Access("api_stop", "write", HandlerThread("api_stop"), Some(200))
    /\ UNCHANGED <<status_lock, threads, handler, limiter_vars, rotator_vars, scraper_vars>>

\* api_export: 400 when scraping_status["results"] is empty, else the
\* results are exported, which succeeds (200) or raises (500).
ApiExport ==
    /\ \E raised \in BOOLEAN :
         access' = Access("api_export", "read", HandlerThread("api_export"),
                          IF scraping_status.results = << >> THEN Some(400)
                          ELSE IF raised THEN Some(500)
                          ELSE Some(200))
    /\ UNCHANGED <<scraping_status, status_lock, threads, handler,
                   limiter_vars, rotator_vars, scraper_vars>>

\* scrape_background: each of its three with status_lock blocks is entered
\* when the lock is free.
BgAcquire(r) ==
    /\ threads[r].pc \in {"started", "scraped", "raised"}
    /\ status_lock = None
    /\ status_lock' = Some(r)
    /\ threads' = [ threads EXCEPT ![r].pc = IF @ = "started" THEN "step1"
                                             ELSE IF @ = "scraped" THEN "step3"
                                             ELSE "except" ]
    /\ UNCHANGED <<scraping_status, handler, access, limiter_vars, rotator_vars, scraper_vars>>

\* scrape_background, step 1: the initial status
BgStep1(r) ==
    /\ threads[r].pc = "step1"
    /\ scraping_status' = [ scraping_status EXCEPT
                              !.running = TRUE,
                              !.completed_items = 0,
                              !.total_items = 0,
                              !.results = << >>,
                              !.form_data = Some(r),
                              !.last_updated = Some("now") ]
    /\ access' = Access("scrape_background", "write", r, None)
    /\ status_lock' = None
    /\ threads' = [ threads EXCEPT ![r].pc = "scraping" ]
    /\ UNCHANGED <<handler, limiter_vars, rotator_vars, scraper_vars>>

\* scrape_background, step 2, outside the lock: the scrape returns a list,
\* possibly empty, or raises.
BgScrape(r) ==
    /\ threads[r].pc = "scraping"
    /\ \/ \E results \in { << >>, Items(r) } :
            threads' = [ threads EXCEPT ![r].pc = "scraped", ![r].results = results ]
       \/ threads' = [ threads EXCEPT ![r].pc = "raised" ]
    /\ UNCHANGED <<scraping_status, status_lock, handler, access,
                   limiter_vars, rotator_vars, scraper_vars>>

\* scrape_background, step 3: the results are stored
BgStep3(r) ==
    /\ threads[r].pc = "step3"
    /\ scraping_status' = [ scraping_status EXCEPT
                              !.running = FALSE,
                              !.completed_items = Len(threads[r].results),
                              !.total_items = Len(threads[r].results),
                              !.results = threads[r].results,
                              !.last_updated = Some("now") ]
    /\ access' = Access("scrape_background", "write", r, None)
    /\ status_lock' = None
    /\ threads' = [ threads EXCEPT ![r].pc = "finished" ]
    /\ UNCHANGED <<handler, limiter_vars, rotator_vars, scraper_vars>>

\* scrape_background, the except clause
BgExcept(r) ==
    /\ threads[r].pc = "except"
    /\ scraping_status' = [ scraping_status EXCEPT
                              !.running = FALSE,
                              !.error = Some("Exception"),
                              !.last_updated = Some("now") ]
    /\ access' = Access("scrape_background", "write", r, None)
    /\ status_lock' = None
    /\ threads' = [ threads EXCEPT ![r].pc = "finished" ]
    /\ UNCHANGED <<handler, limiter_vars, rotator_vars, scraper_vars>>

InitApp ==
    /\ limiter = RateLimiterInit(2000, TRUE)
    /\ last_call = NoCall
    /\ succ_streak = 0
    /\ gen_streak = 0
    /\ rotator = SmartUserAgentRotatorInit
    /\ rot_call = NoRotCall
    /\ rotation = NoRotation
    /\ fetch = NoFetch
    /\ AppInit

NextApp ==
    \/ ApiScrape
    \/ ApiStatusAcquire
    \/ ApiStatusRead
    \/ ApiStop
    \/ ApiExport
    \/ \E r \in Requests : BgAcquire(r)
    \/ \E r \in Requests : BgStep1(r)
    \/ \E r \in Requests : BgScrape(r)
    \/ \E r \in Requests : BgStep3(r)
    \/ \E r \in Requests : BgExcept(r)

SpecApp == InitApp /\ [][NextApp]_vars

-----------------------------------------------------------------------------

(* Specification of the rate limiter *)

Init ==
    /\ \E base_delay \in BaseDelays, randomize \in BOOLEAN :
         limiter = RateLimiterInit(base_delay, randomize)
    /\ last_call = NoCall
    /\ succ_streak = 0
    /\ gen_streak = 0
    /\ rotator = SmartUserAgentRotatorInit
    /\ rot_call = NoRotCall
    /\ rotation = NoRotation
    /\ fetch = NoFetch
    /\ AppInit

Next ==
    \/ Wait
    \/ OnSuccess
    \/ OnFailure
    \/ OnBlocked
    \/ Reset
    \/ SetDelay

Spec == Init /\ [][Next]_vars

-----------------------------------------------------------------------------
(* Specifications of the rotator: the sequential rotation of the base      *)
(* class, and the success statistics of the smart rotator.                 *)

InitRotator ==
    /\ limiter = RateLimiterInit(2000, TRUE)
    /\ last_call = NoCall
    /\ succ_streak = 0
    /\ gen_streak = 0
    /\ rotator = SmartUserAgentRotatorInit
    /\ rot_call = NoRotCall
    /\ rotation = NoRotation
    /\ fetch = NoFetch
    /\ AppInit

NextRotator ==
    \/ GetNextAgent
    \/ GetRandomAgent
    \/ AddCustomAgent

SpecRotator == InitRotator /\ [][NextRotator]_vars

\* The desktop filter is a function of the pool alone. The pool is what
\* _get_user_agent_list returned (a subclass may override it) or what was
\* assigned to the public attribute user_agents since: the default list, or a
\* list of mobile strings only.
DesktopPools == { DefaultAgents, << CustomMobile >> }

InitDesktop ==
    /\ limiter = RateLimiterInit(2000, TRUE)
    /\ last_call = NoCall
    /\ succ_streak = 0
    /\ gen_streak = 0
    /\ \E pool \in DesktopPools :
         rotator = [ SmartUserAgentRotatorInit EXCEPT !.user_agents = pool ]
    /\ rot_call = NoRotCall
    /\ rotation = NoRotation
    /\ fetch = NoFetch
    /\ AppInit

NextDesktop ==
    \/ GetDesktopAgent
    \/ GetRandomAgent
    \/ AddCustomAgent

SpecDesktop == InitDesktop /\ [][NextDesktop]_vars

\* The adaptive limiter: the calls that report a completed request, and the
\* reset it inherits (which leaves response_times alone).
InitAdaptive ==
    /\ \E base_delay \in AdaptiveBaseDelays :
         limiter = AdaptiveRateLimiterInit(base_delay)
    /\ last_call = NoCall
    /\ succ_streak = 0
    /\ gen_streak = 0
    /\ rotator = SmartUserAgentRotatorInit
    /\ rot_call = NoRotCall
    /\ rotation = NoRotation
    /\ fetch = NoFetch
    /\ AppInit

NextAdaptive ==
    \/ OnRequestComplete
    \/ Reset

SpecAdaptive == InitAdaptive /\ [][NextAdaptive]_vars

\* A scraper and the limiter and rotator it constructs:
\* RateLimiter(config.request_delay), 2.0 s by default, and UserAgentRotator().
InitScraper ==
    /\ limiter = RateLimiterInit(2000, TRUE)
    /\ last_call = NoCall
    /\ succ_streak = 0
    /\ gen_streak = 0
    /\ rotator = SmartUserAgentRotatorInit
    /\ rot_call = NoRotCall
    /\ rotation = NoRotation
    /\ \E scraper \in Scrapers : fetch = [ NoFetch EXCEPT !.scraper = scraper ]
    /\ AppInit

NextScraper ==
    \/ GetPageEnter
    \/ GetPageLoop
    \/ GetPageWait
    \/ GetPageAgent
    \/ GetPageFetch
    \/ GetPageClassify
    \/ GetPageExcept
    \/ GetPageFailed

SpecScraper == InitScraper /\ [][NextScraper]_vars

NextSmart ==
    \/ RecordResult
    \/ GetBestAgent
    \/ AddCustomAgent
    \/ GetStats

SpecSmart == InitRotator /\ [][NextSmart]_vars

\* The statistics under reports for strings of no pool
NextCrowd ==
    \/ RecordStranger
    \/ AddCustomAgent

SpecCrowd == InitRotator /\ [][NextCrowd]_vars

-----------------------------------------------------------------------------
(* Properties of the rate limiter *)

Relaxed(self)   == max((self.base_delay * 4) \div 5, 500)
Doubled(self)   == min(self.base_delay * 2, 30000)

\* C1: current_delay is at least 0.1 s and at most 60 s in every reachable
\* state, the initial state included, for every base_delay the limiter can
\* be constructed with.
C1_DelayWithinBounds ==
    /\ limiter.current_delay >= 100
    /\ limiter.current_delay <= 60000

\* C2: the fifth on_success of an uninterrupted run sets current_delay to
\* max(base_delay * 0.8, 0.5 s); an on_success that is the first to fourth
\* of its run leaves current_delay unchanged.
C2_FifthSuccessRelaxes ==
    [][ last_call'.op = "on_success" =>
          /\ succ_streak' = 5 => limiter'.current_delay = Relaxed(limiter')
          /\ succ_streak' < 5 => limiter'.current_delay = limiter.current_delay
      ]_vars

\* C3: the third on_failure("general") of a run that started with
\* consecutive_failures = 0 sets current_delay to min(base_delay * 2, 30 s);
\* the first and the second leave current_delay unchanged.
C3_ThirdGeneralFailureDoubles ==
    [][ last_call'.op = "on_failure" =>
          /\ gen_streak' = 3 => limiter'.current_delay = Doubled(limiter')
          /\ gen_streak' \in {1, 2} =>
                limiter'.current_delay = limiter.current_delay
      ]_vars

C3_Witness ==
    /\ last_call.op = "on_failure"
    /\ gen_streak = 3
    /\ limiter.current_delay # limiter.base_delay

\* C4: on_failure("rate_limit") sets current_delay to min(base_delay * 2, 30 s)
\* whatever the two counters were before the call.
C4_RateLimitDoubles ==
    (last_call.op = "on_failure" /\ last_call.arg = Some("rate_limit"))
        => limiter.current_delay = Doubled(limiter)

C4_Witness ==
    /\ last_call.op = "on_failure"
    /\ last_call.arg = Some("rate_limit")
    /\ limiter.consecutive_failures >= 11

\* C5: on_blocked sets current_delay to 60 s and adds exactly 10 to
\* consecutive_failures.
C5_BlockedSetsSixtyAddsTen ==
    [][ last_call'.op = "on_blocked" =>
          /\ limiter'.current_delay = 60000
          /\ limiter'.consecutive_failures = limiter.consecutive_failures + 10
      ]_vars

C5_Witness ==
    /\ last_call.op = "on_blocked"
    /\ limiter.consecutive_failures = 12

\* C6: reset leaves current_delay = base_delay, both counters 0 and no
\* last-request timestamp, and the wait() that follows it does not sleep.
C6_ResetRestores ==
    [][ /\ last_call'.op = "reset" =>
             /\ limiter'.current_delay = limiter'.base_delay
             /\ limiter'.consecutive_successes = 0
             /\ limiter'.consecutive_failures = 0
             /\ limiter'.last_request_time = None
        /\ (last_call.op = "reset" /\ last_call'.op = "wait") =>
             last_call'.slept = None
      ]_vars

\* a reset made after set_delay moved the baseline to 3 s
C6_Witness ==
    /\ last_call.op = "reset"
    /\ limiter.base_delay = 3000
    /\ limiter.current_delay = 3000

\* The interval C10 gives for the sleep: needed +/- 25 %, floored at 0.1 s.
InJitterInterval(slept, needed) ==
    /\ slept >= 100
    /\ 4 * slept >= 3 * needed
    /\ slept <= 100 \/ 4 * slept <= 5 * needed

\* C10 as stated: wait() does not sleep without a previous timestamp or when
\* needed <= 0, and otherwise sleeps within
\* [max(0.1, 0.75 * needed), max(0.1, 1.25 * needed)].
C10_SleepInJitterInterval ==
    last_call.op = "wait" =>
        IF ~last_call.had_previous \/ last_call.delay_needed[1] <= 0
        THEN last_call.slept = None
        ELSE /\ last_call.slept # None
             /\ InJitterInterval(last_call.slept[1], last_call.delay_needed[1])

\* C10 amended: the interval is that of a limiter with jitter enabled; with
\* jitter disabled wait() sleeps exactly needed.
C10_SleepByMode ==
    last_call.op = "wait" =>
        IF ~last_call.had_previous \/ last_call.delay_needed[1] <= 0
        THEN last_call.slept = None
        ELSE /\ last_call.slept # None
             /\ limiter.randomize =>
                  InJitterInterval(last_call.slept[1], last_call.delay_needed[1])
             /\ ~limiter.randomize =>
                  last_call.slept[1] = last_call.delay_needed[1]

\* a jittered wait whose needed time is below 0.1 s, so that the floor acts
C10_Witness ==
    /\ last_call.op = "wait"
    /\ limiter.randomize
    /\ last_call.delay_needed # None
    /\ last_call.delay_needed[1] > 0
    /\ last_call.delay_needed[1] < 100
    /\ last_call.slept = Some(100)

-----------------------------------------------------------------------------
(* Properties of the rotator *)

\* C7: on an unchanged pool of N strings, the get_next_agent calls that start
\* at cursor 0 return the pool entries in pool order, each once in the first
\* N calls, and the same sequence again in the calls that follow; the cursor
\* advances by 1 modulo N on each call.
C7_RotationInPoolOrder ==
    /\ \A i \in 1..Len(rotation) :
          rotation[i] = rotator.user_agents[((i - 1) % Len(rotator.user_agents)) + 1]
    /\ rotation # << >> =>
          rotator.current_index = Len(rotation) % Len(rotator.user_agents)

\* two full rounds over a pool that has grown to 18 strings
C7_Witness ==
    /\ Len(rotator.user_agents) = 18
    /\ Len(rotation) = 2 * Len(rotator.user_agents)

\* the dict entries with enough uses to be considered
Qualifying(self) ==
    { i \in 1..Len(self.agent_success_rates) :
          self.agent_success_rates[i].total >= 5 }

\* entry i has the highest success rate of the qualifying entries and is the
\* first recorded of those that have it
IsTopQualifying(self, i) ==
    LET rates == self.agent_success_rates
    IN  /\ i \in Qualifying(self)
        /\ \A j \in Qualifying(self) :
              /\ rates[i].success * rates[j].total >= rates[j].success * rates[i].total
              /\ rates[i].success * rates[j].total = rates[j].success * rates[i].total
                    => i <= j

\* C8: whenever some identity has at least 5 attempts, get_best_agent returns
\* the identity with at least 5 attempts whose success rate is the highest,
\* the first recorded on ties, also when every such identity has no success.
C8_BestIsTopQualifying ==
    (rot_call.op = "get_best_agent" /\ Qualifying(rotator) # {}) =>
        \E i \in Qualifying(rotator) :
            /\ IsTopQualifying(rotator, i)
            /\ rot_call.result = Some(rotator.agent_success_rates[i].agent)

\* C9: add_custom_agent with a string already in the pool leaves the pool and
\* the cursor as they were, and the pool never holds a string twice.
C9_AddIsIdempotent ==
    [][ /\ (rot_call'.op = "add_custom_agent"
              /\ InSeq(rot_call'.arg[1], rotator.user_agents)) =>
                 /\ rotator'.user_agents = rotator.user_agents
                 /\ rotator'.current_index = rotator.current_index
        /\ \A i, j \in 1..Len(rotator'.user_agents) :
              rotator'.user_agents[i] = rotator'.user_agents[j] => i = j
      ]_vars

\* CustomChrome added a second time, after CustomMobile was added behind it
C9_Witness ==
    /\ rot_call.op = "add_custom_agent"
    /\ rot_call.arg = Some(CustomChrome)
    /\ Len(rotator.user_agents) = 19
    /\ rotator.user_agents[18] = CustomChrome
    /\ rotator.user_agents[19] = CustomMobile

-----------------------------------------------------------------------------
(* Properties of the limiter: escalation tiers, set_delay, counters *)

Tripled(self)   == min(self.base_delay * 3, 60000)

\* C11: an on_failure call that leaves consecutive_failures >= 5 leaves
\* current_delay at min(base_delay * 3, 60 s): the third tier overrides the
\* doubling tier.
C11_FifthFailureTriples ==
    (last_call.op = "on_failure" /\ limiter.consecutive_failures >= 5)
        => limiter.current_delay = Tripled(limiter)

\* C12: the on_failure call (of either kind) that directly follows an
\* on_blocked call leaves current_delay at min(base_delay * 3, 60 s), not at
\* min(base_delay * 2, 30 s).
C12_FailureAfterBlockTriples ==
    [][ (last_call.op = "on_blocked" /\ last_call'.op = "on_failure") =>
          limiter'.current_delay = Tripled(limiter')
      ]_vars

\* C13: set_delay(value) succeeds for every numeric value, zero, negative
\* and large included: it leaves current_delay = max(0.1 s, value) and
\* base_delay equal to that clamped value, and it leaves both counters and
\* the last-request timestamp as they were.
C13_SetDelayClamps ==
    [][ last_call'.op = "set_delay" =>
          /\ limiter'.current_delay = max(100, last_call'.arg[1])
          /\ limiter'.base_delay = limiter'.current_delay
          /\ limiter'.consecutive_successes = limiter.consecutive_successes
          /\ limiter'.consecutive_failures = limiter.consecutive_failures
          /\ limiter'.last_request_time = limiter.last_request_time
          /\ limiter'.randomize = limiter.randomize
      ]_vars

\* a negative value given after a request was timed and failures counted
C13_Witness ==
    /\ last_call.op = "set_delay"
    /\ last_call.arg = Some(-1000)
    /\ limiter.current_delay = 100
    /\ limiter.base_delay = 100
    /\ limiter.last_request_time # None
    /\ limiter.consecutive_failures = 11

\* set_delay with zero and with a value above 60 s
C13_WitnessExtremes ==
    /\ last_call.op = "set_delay"
    /\ \/ last_call.arg = Some(0) /\ limiter.base_delay = 100
       \/ last_call.arg = Some(70000) /\ limiter.base_delay = 70000

\* C19: on_success adds 1 to consecutive_successes and sets
\* consecutive_failures to 0; on_failure, of either kind, adds 1 to
\* consecutive_failures and sets consecutive_successes to 0; neither changes
\* base_delay or the last-request timestamp.
C19_CountersAreExclusive ==
    [][ /\ last_call'.op = "on_success" =>
              /\ limiter'.consecutive_successes = limiter.consecutive_successes + 1
              /\ limiter'.consecutive_failures = 0
        /\ last_call'.op = "on_failure" =>
              /\ limiter'.consecutive_failures = limiter.consecutive_failures + 1
              /\ limiter'.consecutive_successes = 0
        /\ last_call'.op \in {"on_success", "on_failure"} =>
              /\ limiter'.base_delay = limiter.base_delay
              /\ limiter'.last_request_time = limiter.last_request_time
      ]_vars

\* an on_success that found failures counted and a timestamp recorded
C19_Witness ==
    /\ last_call.op = "on_success"
    /\ limiter.consecutive_successes = 3
    /\ limiter.consecutive_failures = 0
    /\ limiter.current_delay = 60000
    /\ limiter.last_request_time # None

\* C17: within a run of on_failure and on_blocked calls, with no on_success,
\* reset or set_delay in between, current_delay does not decrease from one
\* call to the next.
C17_EscalationIsMonotonic ==
    [][ ( /\ last_call.op \in {"on_failure", "on_blocked"}
          /\ last_call'.op \in {"on_failure", "on_blocked"} ) =>
            limiter'.current_delay >= limiter.current_delay
      ]_vars

\* C18: once current_delay differs from base_delay, no on_success,
\* on_failure or on_blocked call makes it equal to base_delay again.
C18_NoAutomaticRecovery ==
    [][ ( /\ last_call'.op \in {"on_success", "on_failure", "on_blocked"}
          /\ limiter.current_delay # limiter.base_delay ) =>
            limiter'.current_delay # limiter'.base_delay
      ]_vars

\* base_delay values (ms) that one of the tiers maps to itself:
\* min(2 * 0, 30 s) = 0, max(0.8 * 0.5 s, 0.5 s) = 0.5 s,
\* min(2 * 30 s, 30 s) = 30 s, and the 60 s of on_blocked.
TierFixedPoints == {0, 500, 30000, 60000}

\* C18, amended: for a base_delay other than 0, 0.5 s, 30 s and 60 s, once
\* current_delay differs from base_delay no on_success, on_failure or
\* on_blocked call makes it equal to base_delay again.
C18_NoRecoveryOffFixedPoints ==
    [][ ( /\ last_call'.op \in {"on_success", "on_failure", "on_blocked"}
          /\ limiter.current_delay # limiter.base_delay
          /\ limiter.base_delay \notin TierFixedPoints ) =>
            limiter'.current_delay # limiter'.base_delay
      ]_vars

\* the sixth on_success of a run: the fifth had already relaxed the delay
C18_Witness ==
    /\ last_call.op = "on_success"
    /\ limiter.consecutive_successes = 6
    /\ limiter.base_delay = 2000
    /\ limiter.current_delay = 1600

-----------------------------------------------------------------------------
\* C26: after on_blocked current_delay stays at 60 s until reset, set_delay
\* or an on_failure call intervenes or five on_success calls have been made
\* since the block; a single on_success right after a block never lowers
\* current_delay, whatever the success streak before the block was.
\* (current_delay is 60 s only after on_blocked; succ_streak counts the
\* on_success calls since it, or since a later on_failure.)
C26_BlockHoldsUntilFiveSuccesses ==
    [][ ( /\ last_call'.op = "on_success"
          /\ limiter.current_delay = 60000
          /\ succ_streak' < 5 ) =>
            limiter'.current_delay = 60000
      ]_vars

\* C27: the wait() that follows an earlier wait() records a timestamp at
\* least 0.75 * current_delay after the earlier one when jitter is enabled
\* and at least current_delay after it when jitter is disabled; wait()
\* always records a timestamp, taken after the sleep if there was one.
C27_WaitsAreSpaced ==
    [][ last_call'.op = "wait" =>
          /\ limiter'.last_request_time # None
          /\ limiter.last_request_time # None =>
               LET gap == limiter'.last_request_time[1] - limiter.last_request_time[1]
               IN  /\ limiter.randomize => 4 * gap >= 3 * limiter.current_delay
                   /\ ~ limiter.randomize => gap >= limiter.current_delay
                   /\ last_call'.slept # None => gap >= last_call'.slept[1]
      ]_vars

\* two waits in a row with jitter: the second slept 3/4 of the 2 s it needed
C27_Witness ==
    /\ last_call.op = "wait"
    /\ limiter.randomize
    /\ limiter.current_delay = 2000
    /\ last_call.delay_needed = Some(2000)
    /\ last_call.slept = Some(1500)
    /\ limiter.last_request_time = Some(1500)

-----------------------------------------------------------------------------

(* Properties of the rotator: fallback, desktop filter, statistics *)

\* C14: when no identity has reached 5 attempts, the case of no recorded
\* result included, get_best_agent falls back to get_random_agent: it
\* returns a member of the pool and does not raise.
C14_FallbackIsPoolMember ==
    (rot_call.op = "get_best_agent" /\ Qualifying(rotator) = {}) =>
        /\ rot_call.result # None
        /\ InSeq(rot_call.result[1], rotator.user_agents)

\* results are recorded, one identity has 4 successes out of 4 attempts, and
\* none has 5 attempts
C14_Witness ==
    /\ rot_call.op = "get_best_agent"
    /\ Qualifying(rotator) = {}
    /\ \E i \in 1..Len(rotator.agent_success_rates) :
          /\ rotator.agent_success_rates[i].total = 4
          /\ rotator.agent_success_rates[i].success = 4
          /\ rotator.agent_success_rates[i].agent = CustomChrome
    /\ ~ InSeq(CustomChrome, rotator.user_agents)
    /\ InSeq(rot_call.result[1], rotator.user_agents)

\* the entries of agent_success_rates with at least one recorded result
Recorded(self) ==
    { i \in 1..Len(self.agent_success_rates) :
          self.agent_success_rates[i].total > 0 }

\* C16: get_stats returns exactly one entry per identity with at least one
\* recorded result, holding that identity's own success_rate, total_uses and
\* successes; two distinct identities never share or overwrite an entry; the
\* call changes no state.
C16_StatsOneEntryPerIdentity ==
    [][ rot_call'.op = "get_stats" =>
          LET stats == rot_call'.result[1]
              rates == rotator.agent_success_rates
          IN  /\ rotator' = rotator
              /\ Len(stats) = Cardinality(Recorded(rotator))
              /\ \A i \in Recorded(rotator) :
                    \E k \in 1..Len(stats) :
                       /\ stats[k].key = StatsKey(rates[i].agent)
                       /\ stats[k].value.total_uses = rates[i].total
                       /\ stats[k].value.successes = rates[i].success
                       /\ stats[k].value.success_rate =
                              << rates[i].success, rates[i].total >>
      ]_vars

-----------------------------------------------------------------------------
(* Properties of the statistics of the smart rotator *)

\* C24: for every identity, attempts is the number of record_result calls made
\* for it and successes the number of those with success = True, with
\* 0 <= successes <= attempts; an identity's statistics are created by its
\* first report and never removed; and the number of identities holding
\* statistics never exceeds the size of the pool.
C24_StatsCountReports ==
    [][ LET old == rotator.agent_success_rates
            new == rotator'.agent_success_rates
        IN  /\ rot_call'.op # "record_result" => new = old
            /\ rot_call'.op = "record_result" =>
                 LET user_agent == rot_call'.arg[1][1]
                     success    == rot_call'.arg[1][2]
                     i          == DictIndex(old, user_agent)
                     j          == DictIndex(new, user_agent)
                 IN  /\ j # 0
                     /\ new[j].total = (IF i = 0 THEN 0 ELSE old[i].total) + 1
                     /\ new[j].success = (IF i = 0 THEN 0 ELSE old[i].success)
                                           + (IF success THEN 1 ELSE 0)
                     /\ 0 <= new[j].success
                     /\ new[j].success <= new[j].total
                     /\ Len(new) = IF i = 0 THEN Len(old) + 1 ELSE Len(old)
                     /\ \A k \in 1..Len(old) :
                           old[k].agent # user_agent => new[k] = old[k]
            /\ Len(new) <= Len(rotator'.user_agents)
      ]_vars

\* C28: get_best_agent always returns a string that is in the pool at the
\* time of the call, after any sequence of add_custom_agent and
\* record_result calls, record_result taking arbitrary strings.
C28_BestIsPoolMember ==
    rot_call.op = "get_best_agent" =>
        /\ rot_call.result # None
        /\ InSeq(rot_call.result[1], rotator.user_agents)

-----------------------------------------------------------------------------

(* Property of the page-fetch routines *)

FixedOrder == << "select", "wait", "fetch", "classify", "report" >>

\* a request attempt is over: the call returned after a request was made, or
\* the loop has gone on to a further iteration
AttemptEnded ==
    \/ fetch.pc = "returned" /\ fetch.trace # << >>
    \/ fetch.pc = "loop" /\ fetch.attempt > 0 /\ fetch.attempt < retries

\* C20: in each scraper's _get_page every request attempt runs select
\* identity, wait, fetch, classify, report in this order, with exactly one
\* outcome reported to the rate limiter, on every path: security-check and
\* blocked pages, HTTP 429 and transport exceptions included.
C20_AttemptInFixedOrder ==
    AttemptEnded => fetch.trace = FixedOrder

-----------------------------------------------------------------------------
(* Properties of the adaptive limiter *)

\* C21: after every on_request_complete call the latency history holds at
\* most 10 entries, and they are the most recent reported latencies in
\* arrival order: the history before the call with the new latency at its
\* end, less its oldest entry when there were 10 already.
C21_HistoryIsLastTen ==
    [][ last_call'.op = "on_request_complete" =>
          LET old == limiter.response_times
              new == limiter'.response_times
              response_time == last_call'.arg[1][1]
          IN  /\ Len(new) <= 10
              /\ new = IF Len(old) < 10
                       THEN Append(old, response_time)
                       ELSE Append(Tail(old), response_time)
      ]_vars

\* twelve failures in a row were reported, so at least twelve latencies
\* arrived: ten are kept
C21_Witness ==
    /\ last_call.op = "on_request_complete"
    /\ limiter.consecutive_failures = 12
    /\ Len(limiter.response_times) = 10
    /\ limiter.response_times[1] = 500
    /\ limiter.response_times[10] = 6000

\* C22: on on_request_complete(latency, success = True) the extra reduction
\* current_delay := max(current_delay * 0.9, 0.5 s), applied to what
\* on_success left, is made if and only if the mean of the last 5 recorded
\* latencies is below 1.0 s and consecutive_successes >= 5; older latencies
\* have no part in the decision.
C22_ReductionOnLastFive ==
    [][ ( /\ last_call'.op = "on_request_complete"
          /\ last_call'.arg[1][2] ) =>
            LET s2      == on_success(limiter)
                history == limiter'.response_times
                fast    == /\ Len(history) >= 5
                           /\ Sum(LastN(history, 5)) < 1000 * 5
            IN  limiter'.current_delay =
                    IF fast /\ s2.consecutive_successes >= 5
                    THEN max((s2.current_delay * 9) \div 10, 500)
                    ELSE s2.current_delay
      ]_vars

\* the value on_failure("general") leaves, raised by half and capped at 30 s
Slowed(self) ==
    min((on_failure(self, "general").current_delay * 3) \div 2, 30000)

\* C23: on on_request_complete(latency, success = False), after the update
\* of on_failure, current_delay is multiplied by 1.5 and capped at 30 s if
\* and only if at least 3 latencies are recorded and the mean of the last 3
\* exceeds 5.0 s; the doubling of on_failure and this increase can both be
\* made in one call.
C23_IncreaseOnLastThree ==
    [][ ( /\ last_call'.op = "on_request_complete"
          /\ ~ last_call'.arg[1][2] ) =>
            LET history == limiter'.response_times
                slow    == /\ Len(history) >= 3
                           /\ Sum(LastN(history, 3)) > 5000 * 3
            IN  /\ limiter'.consecutive_failures = limiter.consecutive_failures + 1
                /\ limiter'.consecutive_successes = 0
                /\ limiter'.current_delay =
                       IF slow THEN Slowed(limiter)
                       ELSE on_failure(limiter, "general").current_delay
      ]_vars

\* the third failure in a row, all slow: on_failure doubled 8 s to 16 s and
\* the latency rule raised that to 24 s in the same call
C23_Witness ==
    /\ last_call.op = "on_request_complete"
    /\ last_call.arg = Some(<< 6000, FALSE >>)
    /\ limiter.consecutive_failures = 3
    /\ limiter.response_times = << 6000, 6000, 6000 >>
    /\ limiter.current_delay = 24000

\* the cap applies: 30 s, where 1.5 times the 24 s reached before would be 36 s
C23_WitnessCapped ==
    /\ last_call.op = "on_request_complete"
    /\ last_call.arg = Some(<< 6000, FALSE >>)
    /\ limiter.consecutive_failures = 1
    /\ limiter.current_delay = 30000

\* C29: the latency-based reduction does not accumulate: after every
\* on_request_complete(success = True) call that leaves
\* consecutive_successes >= 5 while the mean of the last 5 latencies is
\* below 1.0 s, current_delay is max(max(base_delay * 0.8, 0.5 s) * 0.9, 0.5 s),
\* however many such calls came before.
C29_ReductionDoesNotAccumulate ==
    [][ ( /\ last_call'.op = "on_request_complete"
          /\ last_call'.arg[1][2]
          /\ limiter'.consecutive_successes >= 5
          /\ Len(limiter'.response_times) >= 5
          /\ Sum(LastN(limiter'.response_times, 5)) < 1000 * 5 ) =>
            limiter'.current_delay = max((Relaxed(limiter') * 9) \div 10, 500)
      ]_vars


-----------------------------------------------------------------------------
(* Properties of the web interface *)

\* C25: scraping_status is thread-safe: every read and every write of it, by
\* the routes api_scrape, api_status, api_stop and api_export and by the
\* background thread, is made while the thread making it holds status_lock.
C25_StatusUsedUnderLock ==
    access.kind \in {"read", "write"} => access.locked

\* C30: at most one background scrape thread is active at any time: a
\* POST /api/scrape made while scraping_status.running is true starts no
\* second scrape, and the results stored are those of the most recently
\* requested scrape, never overwritten by the completion of an earlier one.
C30_OneScrapeAtATime ==
    [][ /\ Cardinality(Active') <= 1
        /\ (Started' # Started) => ~ scraping_status.running
        /\ scraping_status'.results # << >> =>
              scraping_status'.results = Items(Cardinality(Started'))
      ]_vars

=============================================================================
